---- MODULE Spec2Model ----
(***************************************************************************)
(* Model of the professor-review ingestion pipeline:                       *)
(*   - PineconeClient (src/src/pinecone_client.py): the known-id cache     *)
(*     existing_ids and the two upsert operations;                         *)
(*   - ProfessorEmbeddingsProcessor.upsert_professors_batch (src/main.py): *)
(*     the chunked publish loop;                                           *)
(*   - ProfessorFilter (src/src/review_filter.py): review selection;       *)
(*   - search_school_for_professor_links (src/src/search_school.py): the   *)
(*     paginated link discovery with its Show More retries;                *)
(*   - EmbeddingService (src/src/embeddings.py): the weighted composition; *)
(*   - ProfessorEmbeddingsProcessor (src/main.py): construction and run.   *)
(* The specifications share the variables:                                 *)
(*   Spec          calls on one PineconeClient, in any order               *)
(*   SpecPipeline  one run of upsert_professors_batch on a candidate list  *)
(*   SpecSelect    one call of ProfessorFilter.filter_reviews              *)
(*   SpecDiscover  one call of search_school_for_professor_links           *)
(*   SpecCompose   one call of generate_professor_embedding                *)
(*   SpecPublish   one call of upsert_professors_batch on professors       *)
(*   SpecRun       construction of the processor followed by run()         *)
(*   SpecDiscoverFair  SpecDiscover with weak fairness of its steps        *)
(*   SpecRecency   one call of ProfessorFilter._filter_by_recency on       *)
(*                 reviews dated by year and month                         *)
(*   SpecClient    construction of a PineconeClient, then calls on it      *)
(*   SpecRace      two threads inside the upsert methods of one client     *)
(***************************************************************************)
EXTENDS Integers, Sequences, FiniteSets, TLC

\* ------------------------------------------------------------------------
\* Bounds and input domains
\* ------------------------------------------------------------------------
MaxBatchLen == 2      \* longest id/embedding/metadata list passed to upsert_batch
MaxCandidates == 3    \* longest candidate list of the pipeline
MaxBatchSize == 2     \* largest batch_size of the pipeline
MaxReviews == 3       \* longest review list passed to filter_reviews
MaxTopN == 2          \* largest configured top_n
MaxThreshold == 2     \* largest configured review_length_threshold

Keys == {"k1", "k2"}

\* An embedding is a numpy array, modelled as a sequence of rows; a metadata
\* record is opaque.  The two payloads differ in both components.
Payloads == { << << <<1, 2>> >>, "m1" >>,
              << << <<2>>, <<1>> >>, "m2" >> }

\* (id, embedding, metadata) as a caller holds them
Triples == { <<k, p[1], p[2]>> : k \in Keys, p \in Payloads }

RECURSIVE SeqsUpTo(_, _)
SeqsUpTo(S, n) ==
    IF n = 0 THEN { <<>> }
    ELSE LET shorter == SeqsUpTo(S, n - 1)
         IN  shorter \cup { Append(s, x) : s \in { t \in shorter : Len(t) = n - 1 }, x \in S }

Min(a, b) == IF a <= b THEN a ELSE b
Max(a, b) == IF a >= b THEN a ELSE b

Column(seq, c) == [ i \in 1..Len(seq) |-> seq[i][c] ]

\* ------------------------------------------------------------------------
\* State
\* ------------------------------------------------------------------------
VARIABLES
    existing_ids,   \* PineconeClient.existing_ids
    last_call,      \* what the latest call on the client did (observation)
    all_batch_data, \* upsert_professors_batch: the candidate list
    batch_size,     \* upsert_professors_batch: its batch_size argument
    i,              \* upsert_professors_batch: the loop variable of range()
    pc,             \* position of the running operation
    attempts,       \* upsert_professors_batch: the upsert_batch calls made so far
    run_raised,     \* upsert_professors_batch: an exception left the method
    reviews,        \* filter_reviews: its argument
    config,         \* ProfessorFilter fields set by __init__
    selected,       \* filter_reviews: its return value
    target,         \* search_school_for_professor_links: which argument names the school
    max_professor_links, \* search_school_for_professor_links: its argument
    directory,      \* the site: the card groups of the professor directory, in load order
    on_directory,   \* whether the caller's page shows the professor directory
    page_loaded,    \* how many card groups the caller's page has loaded
    retry,          \* retry_click_show_more: its locals (retries, page)
    professor_links,\* search_school_for_professor_links: the set it builds
    result,         \* search_school_for_professor_links: what it returned
    error,          \* the exception that left the running operation
    expand,         \* the latest Show More step (observation)
    tags,           \* generate_professor_embedding: its argument
    review_texts,   \* generate_professor_embedding: its argument
    weight_tags,    \* generate_professor_embedding: its argument
    weight_reviews, \* generate_professor_embedding: its argument
    normalized_embedding, \* generate_professor_embedding: its return value
    professors,     \* generate_embeddings_batch: its argument
    j,              \* generate_embeddings_batch: professors[1..j] are processed
    batch_data,     \* generate_embeddings_batch: the list it builds
    processed,      \* what happened to each processed professor (observation)
    stages,         \* run: the stages that have begun
    connected,      \* what test_pinecone_connection returned (observation)
    fetched,        \* the links whose page scrape_professor can extract
    refresh,        \* refresh_existing_ids: its calls so far (observation)
    threads,        \* concurrent callers of one client: position and locals
    submissions     \* the index.upsert calls the store received (observation)

vars == << existing_ids, last_call, all_batch_data, batch_size, i, pc,
           attempts, run_raised, reviews, config, selected,
           target, max_professor_links, directory, on_directory, page_loaded,
           retry, professor_links, result, error, expand,
           tags, review_texts, weight_tags, weight_reviews, normalized_embedding,
           professors, j, batch_data, processed, stages, connected, fetched,
           refresh, threads, submissions >>

storeVars == << existing_ids, last_call >>
pipeVars == << all_batch_data, batch_size, i, attempts, run_raised >>
selectVars == << reviews, config, selected >>
discoverVars == << target, max_professor_links, directory, on_directory, page_loaded,
                   retry, professor_links, result, error, expand >>
composeVars == << tags, review_texts, weight_tags, weight_reviews, normalized_embedding >>
publishVars == << professors, j, batch_data, processed >>
runVars == << stages, connected, fetched, refresh >>
raceVars == << threads, submissions >>
laterVars == << composeVars, publishVars, runVars, raceVars >>

\* The parts of the state a specification does not use stay as they are here
NoRetry == [ retries |-> 0, on_caller_page |-> TRUE, loaded |-> 0 ]
NoExpand == [ attempts |-> 0, timeouts |-> 0, returned |-> "pending", links |-> {} ]

DiscoverIdle ==
    /\ target = "school_name"
    /\ max_professor_links = 0
    /\ directory = <<>>
    /\ on_directory = FALSE
    /\ page_loaded = 0
    /\ retry = NoRetry
    /\ professor_links = {}
    /\ result = {}
    /\ error = "none"
    /\ expand = NoExpand

\* Rational numbers are pairs << numerator, denominator >>
ComposeIdle ==
    /\ tags = <<>>
    /\ review_texts = <<>>
    /\ weight_tags = << 0, 1 >>
    /\ weight_reviews = << 0, 1 >>
    /\ normalized_embedding = <<>>
PublishIdle ==
    /\ professors = <<>>
    /\ j = 0
    /\ batch_data = <<>>
    /\ processed = <<>>
NoRefresh == [ calls |-> 0, complete |-> FALSE ]
RunIdle == stages = {} /\ connected = "untested" /\ fetched = {} /\ refresh = NoRefresh
RaceIdle == threads = <<>> /\ submissions = <<>>
LaterIdle == ComposeIdle /\ PublishIdle /\ RunIdle /\ RaceIdle

\* ------------------------------------------------------------------------
\* PineconeClient (src/src/pinecone_client.py)
\* ------------------------------------------------------------------------

\* numpy's ndarray.flatten().tolist(): the rows of the array, concatenated
RECURSIVE flatten(_)
flatten(embedding) ==
    IF embedding = <<>> THEN <<>>
    ELSE Head(embedding) \o flatten(Tail(embedding))

\* zip(ids, embeddings, metadatas) with each embedding flattened: as long as
\* the shortest of the three lists
vectors_of(ids, embeddings, metadatas) ==
    [ n \in 1..Min(Len(ids), Min(Len(embeddings), Len(metadatas))) |->
        << ids[n], flatten(embeddings[n]), metadatas[n] >> ]

\* faulty variant: the membership test left out
vectors_to_upsert_mut_no_filter(vectors, existing) == vectors

\* [v for v in vectors if v[0] not in self.existing_ids]
vectors_to_upsert(vectors, existing) ==
    SelectSeq(vectors, LAMBDA v : v[1] \notin existing)

\* self.existing_ids.update(id for id, _, _ in vectors_to_upsert)
ids_updated(existing, vectors) ==
    existing \cup { vectors[n][1] : n \in 1..Len(vectors) }

\* faulty variant: existing_ids.update (line 96) left out
upsert_batch_mut_no_update(existing, ids, embeddings, metadatas, store_ok) ==
    LET to_upsert == vectors_to_upsert(vectors_of(ids, embeddings, metadatas), existing)
    IN  IF to_upsert = <<>>
        THEN [ existing_ids |-> existing, sent |-> <<>>, raised |-> FALSE ]
        ELSE [ existing_ids |-> existing, sent |-> << to_upsert >>, raised |-> ~store_ok ]

\* faulty variant: existing_ids.update placed before index.upsert
upsert_batch_mut_update_first(existing, ids, embeddings, metadatas, store_ok) ==
    LET to_upsert == vectors_to_upsert(vectors_of(ids, embeddings, metadatas), existing)
    IN  IF to_upsert = <<>>
        THEN [ existing_ids |-> existing, sent |-> <<>>, raised |-> FALSE ]
        ELSE [ existing_ids |-> ids_updated(existing, to_upsert),
               sent |-> << to_upsert >>, raised |-> ~store_ok ]

\* faulty variant: the ids filtered before the zip, so that the kept ids are
\* paired with the leading embeddings and metadatas
upsert_batch_mut_filter_ids_only(existing, ids, embeddings, metadatas, store_ok) ==
    LET new_ids == SelectSeq(ids, LAMBDA k : k \notin existing)
        to_upsert == vectors_of(new_ids, embeddings, metadatas)
    IN  IF to_upsert = <<>>
        THEN [ existing_ids |-> existing, sent |-> <<>>, raised |-> FALSE ]
        ELSE IF store_ok
        THEN [ existing_ids |-> ids_updated(existing, to_upsert),
               sent |-> << to_upsert >>, raised |-> FALSE ]
        ELSE [ existing_ids |-> existing, sent |-> << to_upsert >>, raised |-> TRUE ]

\* What a call of upsert_batch does, given whether index.upsert succeeds:
\* the cache afterwards, the index.upsert calls made (each with its vectors
\* argument), and whether an exception leaves the method.
upsert_batch(existing, ids, embeddings, metadatas, store_ok) ==
    LET to_upsert == vectors_to_upsert(vectors_of(ids, embeddings, metadatas), existing)
    IN  IF to_upsert = <<>>
        THEN [ existing_ids |-> existing, sent |-> <<>>, raised |-> FALSE ]
        ELSE IF store_ok
        THEN [ existing_ids |-> ids_updated(existing, to_upsert),
               sent |-> << to_upsert >>, raised |-> FALSE ]
        ELSE [ existing_ids |-> existing, sent |-> << to_upsert >>, raised |-> TRUE ]

\* faulty variant: a failed index.upsert tried a second time
upsert_professor_embeddings_mut_retry(existing, professor_id, embedding, metadata, store_ok) ==
    LET embedding_list == flatten(embedding)
        vectors == << << professor_id, embedding_list, metadata >> >>
    IN  IF professor_id \in existing
        THEN [ existing_ids |-> existing, sent |-> <<>>, raised |-> FALSE ]
        ELSE IF store_ok
        THEN [ existing_ids |-> existing \cup {professor_id},
               sent |-> << vectors >>, raised |-> FALSE ]
        ELSE [ existing_ids |-> existing, sent |-> << vectors, vectors >>, raised |-> TRUE ]

\* faulty variant: existing_ids.add placed before index.upsert
upsert_professor_embeddings_mut_add_first(existing, professor_id, embedding, metadata, store_ok) ==
    LET embedding_list == flatten(embedding)
        vectors == << << professor_id, embedding_list, metadata >> >>
    IN  IF professor_id \in existing
        THEN [ existing_ids |-> existing, sent |-> <<>>, raised |-> FALSE ]
        ELSE [ existing_ids |-> existing \cup {professor_id},
               sent |-> << vectors >>, raised |-> ~store_ok ]

\* What a call of upsert_professor_embeddings does, in the same terms
upsert_professor_embeddings(existing, professor_id, embedding, metadata, store_ok) ==
    LET embedding_list == flatten(embedding)
        vectors == << << professor_id, embedding_list, metadata >> >>
    IN  IF professor_id \in existing
        THEN [ existing_ids |-> existing, sent |-> <<>>, raised |-> FALSE ]
        ELSE IF store_ok
        THEN [ existing_ids |-> existing \cup {professor_id},
               sent |-> << vectors >>, raised |-> FALSE ]
        ELSE [ existing_ids |-> existing, sent |-> << vectors >>, raised |-> TRUE ]

\* What the latest call did, and how it relates to the call before it
\* (observation only: the client keeps none of this)
relation_to_previous(op, ids, embeddings, metadatas) ==
    [ same |-> /\ last_call.op = op
               /\ last_call.ids = ids
               /\ last_call.embeddings = embeddings
               /\ last_call.metadatas = metadatas,
      raised |-> last_call.raised,
      contacted |-> last_call.sent # <<>> ]

NoCall ==
    [ op |-> "none", ids |-> <<>>, embeddings |-> <<>>, metadatas |-> <<>>,
      before |-> {}, sent |-> <<>>, store_ok |-> TRUE, raised |-> FALSE,
      previous |-> [ same |-> FALSE, raised |-> FALSE, contacted |-> FALSE ] ]

Observe(op, ids, embeddings, metadatas, store_ok, r) ==
    [ op |-> op, ids |-> ids, embeddings |-> embeddings, metadatas |-> metadatas,
      before |-> existing_ids, sent |-> r.sent,
      store_ok |-> (r.sent = <<>>) \/ store_ok, raised |-> r.raised,
      previous |-> relation_to_previous(op, ids, embeddings, metadatas) ]

\* A caller calls upsert_batch(ids, embeddings, metadatas)
UpsertBatch(ids, embeddings, metadatas, store_ok) ==
    LET r == upsert_batch(existing_ids, ids, embeddings, metadatas, store_ok)
    IN  /\ pc = "client"
        /\ existing_ids' = r.existing_ids
        /\ last_call' = Observe("upsert_batch", ids, embeddings, metadatas, store_ok, r)
        /\ UNCHANGED << pc, pipeVars, selectVars, discoverVars, laterVars >>

\* A caller calls upsert_professor_embeddings(professor_id, embedding, metadata)
UpsertOne(professor_id, embedding, metadata, store_ok) ==
    LET r == upsert_professor_embeddings(existing_ids, professor_id, embedding,
                                         metadata, store_ok)
    IN  /\ pc = "client"
        /\ existing_ids' = r.existing_ids
        /\ last_call' = Observe("upsert_professor_embeddings", << professor_id >>,
                                << embedding >>, << metadata >>, store_ok, r)
        /\ UNCHANGED << pc, pipeVars, selectVars, discoverVars, laterVars >>

\* After PineconeClient.__init__: the cache holds the ids the listing returned
Init ==
    /\ existing_ids \in SUBSET Keys
    /\ last_call = NoCall
    /\ pc = "client"
    /\ all_batch_data = <<>>
    /\ batch_size = 1
    /\ i = 0
    /\ attempts = <<>>
    /\ run_raised = FALSE
    /\ reviews = <<>>
    /\ config = [ review_length_threshold |-> 1, years_limit |-> 0,
                  top_n |-> 0, current_year |-> 0 ]
    /\ selected = <<>>
    /\ DiscoverIdle
    /\ LaterIdle

Next ==
    \/ \E batch \in SeqsUpTo(Triples, MaxBatchLen), store_ok \in BOOLEAN :
          UpsertBatch(Column(batch, 1), Column(batch, 2), Column(batch, 3), store_ok)
    \/ \E t \in Triples, store_ok \in BOOLEAN :
          UpsertOne(t[1], t[2], t[3], store_ok)

Spec == Init /\ [][Next]_vars

\* ------------------------------------------------------------------------
\* Properties of the PineconeClient (specification Spec)
\* ------------------------------------------------------------------------

\* The input triples, in input order, whose key is absent from `cache`, each
\* key with the (flattened) vector and the metadata of its own position
RECURSIVE AbsentTriples(_, _, _, _)
AbsentTriples(ids, embeddings, metadatas, cache) ==
    IF ids = <<>> \/ embeddings = <<>> \/ metadatas = <<>> THEN <<>>
    ELSE LET rest == AbsentTriples(Tail(ids), Tail(embeddings), Tail(metadatas), cache)
         IN  IF Head(ids) \in cache THEN rest
             ELSE << << Head(ids), flatten(Head(embeddings)), Head(metadatas) >> >> \o rest

KeysOf(batch) == { batch[n][1] : n \in 1..Len(batch) }

\* every record the store was handed during a call, over all its store calls
RECURSIVE Received(_)
Received(sent) == IF sent = <<>> THEN <<>> ELSE Head(sent) \o Received(Tail(sent))

SameArguments(a, b) ==
    /\ a.op = b.op
    /\ a.ids = b.ids
    /\ a.embeddings = b.embeddings
    /\ a.metadatas = b.metadatas

\* C1: when upsert_batch is called twice in sequence with the same data and
\* the first call succeeds, the second call filters to an empty batch, makes
\* no store call and raises nothing, so that over the two calls the store
\* receives each record not known before exactly once, in one store call.
C1_RepeatedBatchSubmittedOnce ==
    [][ ( /\ last_call.op = "upsert_batch"
          /\ ~last_call.raised
          /\ last_call'.op = "upsert_batch"
          /\ SameArguments(last_call, last_call') )
        => /\ last_call'.sent = <<>>
           /\ ~last_call'.raised
           /\ existing_ids' = existing_ids
           /\ Len(last_call.sent \o last_call'.sent) <= 1
           /\ Received(last_call.sent \o last_call'.sent)
                = AbsentTriples(last_call.ids, last_call.embeddings,
                                last_call.metadatas, last_call.before) ]_vars

C1_Witness ==
    /\ last_call.op = "upsert_batch"
    /\ last_call.previous.same
    /\ ~last_call.previous.raised
    /\ last_call.previous.contacted
    /\ last_call.sent = <<>>

\* C2: no store call of an upsert ever carries a key that was in the cache
\* when the call started; upsert_professor_embeddings on a cached key returns
\* without raising, without a store call and without changing the cache.
C2_CachedKeyNeverResubmitted ==
    /\ \A n \in 1..Len(last_call.sent) :
          KeysOf(last_call.sent[n]) \cap last_call.before = {}
    /\ ( /\ last_call.op = "upsert_professor_embeddings"
         /\ last_call.ids[1] \in last_call.before )
       => /\ ~last_call.raised
          /\ last_call.sent = <<>>
          /\ existing_ids = last_call.before

C2_Witness ==
    /\ last_call.op = "upsert_professor_embeddings"
    /\ last_call.ids[1] \in last_call.before
    /\ last_call.previous.raised

\* C3: when the store call of upsert_batch fails, the exception reaches the
\* caller and the cache is what it was before the call; a retry with the
\* same arguments then submits the same batch again, in full.
C3_FailedBatchLeavesCache ==
    [][ /\ ( last_call'.op = "upsert_batch" /\ ~last_call'.store_ok )
           => /\ last_call'.raised
              /\ existing_ids' = last_call'.before
        /\ ( /\ last_call.op = "upsert_batch"
             /\ ~last_call.store_ok
             /\ last_call'.op = "upsert_batch"
             /\ SameArguments(last_call, last_call') )
           => /\ last_call'.before = last_call.before
              /\ last_call'.sent = last_call.sent
              /\ last_call'.sent =
                   << AbsentTriples(last_call.ids, last_call.embeddings,
                                    last_call.metadatas, last_call.before) >> ]_vars

C3_Witness ==
    /\ last_call.op = "upsert_batch"
    /\ last_call.previous.same
    /\ last_call.previous.raised
    /\ last_call.sent # <<>>
    /\ ~last_call.raised
    /\ Len(last_call.ids) > Len(last_call.sent[1])

\* C4: the batch upsert_batch submits is exactly the input triples whose key
\* is absent from the cache, in input order and paired by position; it goes
\* out in a single store call (none when it is empty), and on success the
\* cache becomes the old cache plus every submitted key.
C4_BatchIsAbsentSubsequence ==
    last_call.op = "upsert_batch" =>
        LET absent == AbsentTriples(last_call.ids, last_call.embeddings,
                                    last_call.metadatas, last_call.before)
        IN  /\ last_call.sent = IF absent = <<>> THEN <<>> ELSE << absent >>
            /\ ~last_call.raised =>
                  existing_ids = last_call.before \cup KeysOf(absent)

C4_Witness ==
    /\ last_call.op = "upsert_batch"
    /\ ~last_call.raised
    /\ Len(last_call.ids) = 2
    /\ last_call.ids[1] \in last_call.before
    /\ last_call.ids[2] \notin last_call.before
    /\ last_call.metadatas[1] # last_call.metadatas[2]
    /\ last_call.ids[2] \in existing_ids

\* C5: upsert_professor_embeddings on a key absent from the cache makes
\* exactly one store call; when it succeeds the key is added to the cache,
\* when it fails the exception reaches the caller and the cache is unchanged.
C5_SingleUpsertOneStoreCall ==
    ( /\ last_call.op = "upsert_professor_embeddings"
      /\ last_call.ids[1] \notin last_call.before )
    => /\ last_call.sent = << << << last_call.ids[1],
                                    flatten(last_call.embeddings[1]),
                                    last_call.metadatas[1] >> >> >>
       /\ last_call.store_ok =>
             /\ ~last_call.raised
             /\ existing_ids = last_call.before \cup { last_call.ids[1] }
       /\ ~last_call.store_ok =>
             /\ last_call.raised
             /\ existing_ids = last_call.before

C5_Witness ==
    /\ last_call.op = "upsert_professor_embeddings"
    /\ last_call.ids[1] \notin last_call.before
    /\ last_call.raised
    /\ existing_ids = last_call.before

\* ------------------------------------------------------------------------
\* ProfessorEmbeddingsProcessor.upsert_professors_batch (src/main.py)
\* ------------------------------------------------------------------------

\* faulty variant: the slice one record too long, all_batch_data[i : i + batch_size + 1]
slice_mut_one_more(data, from, size) ==
    SubSeq(data, from + 1, Min(from + size + 1, Len(data)))

\* all_batch_data[i : i + batch_size] (i counts from 0)
slice(data, from, size) ==
    SubSeq(data, from + 1, Min(from + size, Len(data)))

\* faulty variant: the call made outside any try/except
chunk_exception_escapes_mut_no_except(raised) == raised

\* try: self.pinecone_client.upsert_batch(...) except Exception: log.
\* Whether an exception raised by the call leaves the loop.
chunk_exception_escapes(raised) == FALSE

\* One iteration of `for i in range(0, len(all_batch_data), batch_size)`
UpsertChunk(store_ok) ==
    LET batch == slice(all_batch_data, i, batch_size)
        ids == Column(batch, 1)
        embeddings == Column(batch, 2)
        metadatas == Column(batch, 3)
        r == upsert_batch(existing_ids, ids, embeddings, metadatas, store_ok)
    IN  /\ pc = "loop"
        /\ i < Len(all_batch_data)
        /\ existing_ids' = r.existing_ids
        /\ attempts' = Append(attempts,
               [ ids |-> ids, embeddings |-> embeddings, metadatas |-> metadatas,
                 sent |-> r.sent, raised |-> r.raised ])
        /\ IF chunk_exception_escapes(r.raised)
           THEN /\ pc' = "done"
                /\ run_raised' = TRUE
                /\ i' = i
           ELSE /\ pc' = "loop"
                /\ run_raised' = run_raised
                /\ i' = i + batch_size
        /\ UNCHANGED << last_call, all_batch_data, batch_size, selectVars, discoverVars, laterVars >>

\* range() is exhausted: the method returns
FinishUpserts ==
    /\ pc = "loop"
    /\ i >= Len(all_batch_data)
    /\ pc' = "done"
    /\ UNCHANGED << storeVars, pipeVars, selectVars, discoverVars, laterVars >>

\* upsert_professors_batch has the candidate list in hand (line 149)
InitPipeline ==
    /\ existing_ids \in SUBSET Keys
    /\ last_call = NoCall
    /\ pc = "loop"
    /\ all_batch_data \in SeqsUpTo(Triples, MaxCandidates)
    /\ batch_size \in 1..MaxBatchSize
    /\ i = 0
    /\ attempts = <<>>
    /\ run_raised = FALSE
    /\ reviews = <<>>
    /\ config = [ review_length_threshold |-> 1, years_limit |-> 0,
                  top_n |-> 0, current_year |-> 0 ]
    /\ selected = <<>>
    /\ DiscoverIdle
    /\ LaterIdle

NextPipeline ==
    \/ \E store_ok \in BOOLEAN : UpsertChunk(store_ok)
    \/ FinishUpserts

SpecPipeline == InitPipeline /\ [][NextPipeline]_vars

\* ------------------------------------------------------------------------
\* Properties of the publish loop (specification SpecPipeline)
\* ------------------------------------------------------------------------

\* how many chunks of `size` cover `n` candidates
ChunkCount(n, size) == (n + size - 1) \div size

\* the candidates of the k-th chunk (k from 1), in candidate order
ChunkAt(k) ==
    [ n \in 1..(Min(k * batch_size, Len(all_batch_data)) - (k - 1) * batch_size) |->
        all_batch_data[(k - 1) * batch_size + n] ]

AttemptIsChunk(k) ==
    /\ attempts[k].ids = Column(ChunkAt(k), 1)
    /\ attempts[k].embeddings = Column(ChunkAt(k), 2)
    /\ attempts[k].metadatas = Column(ChunkAt(k), 3)

\* C6: in the batched publish upsert_batch is attempted once for every chunk,
\* in order, whichever chunks fail: the calls made so far are always the
\* first chunks, a failed call is followed by the call for the next chunk,
\* and the run ends with every chunk attempted and no exception raised.
C6_EveryChunkAttempted ==
    /\ ~run_raised
    /\ Len(attempts) <= ChunkCount(Len(all_batch_data), batch_size)
    /\ \A k \in 1..Len(attempts) : AttemptIsChunk(k)
    /\ pc = "done" =>
          Len(attempts) = ChunkCount(Len(all_batch_data), batch_size)

C6_Witness ==
    /\ pc = "done"
    /\ Len(attempts) = 3
    /\ attempts[1].raised
    /\ ~attempts[2].raised
    /\ attempts[3].raised

\* ------------------------------------------------------------------------
\* ProfessorFilter (src/src/review_filter.py)
\* ------------------------------------------------------------------------

\* A review text is a sequence of characters; " " is whitespace.
Texts == { << " ", "a" >>, << "a", " ", " ", "b" >> }
ReviewYears == { 2019, 2020 }
HelpfulVotes == { 0, 1 }
CurrentYears == { 2026 }
YearsLimits == { 5, 6 }

\* The fields of ProfessorReview that filter_reviews reads
ProfessorReviews ==
    [ date : [ year : ReviewYears ], review : Texts, helpfulVotes : HelpfulVotes ]

\* faulty variant, str.split(" "): one piece per separator, empty pieces kept
RECURSIVE split_on_each_space(_, _)
split_on_each_space(text, word) ==
    IF text = <<>> THEN << word >>
    ELSE IF Head(text) = " "
    THEN << word >> \o split_on_each_space(Tail(text), <<>>)
    ELSE split_on_each_space(Tail(text), Append(word, Head(text)))

split_mut_single_space(text) == split_on_each_space(text, <<>>)

\* str.split(): the maximal runs of non-whitespace characters.  The text is
\* cut at a blank near its middle (the first one in the second half, or else
\* the last one) and the words of both parts are joined; a part without a
\* blank is one word, or nothing when it is empty.
RECURSIVE split(_)
split(text) ==
    LET blanks == { n \in DOMAIN text : text[n] = " " }
        later == { n \in blanks : 2 * n >= Len(text) }
    IN  IF blanks = {} THEN (IF text = <<>> THEN <<>> ELSE << text >>)
        ELSE LET m == IF later # {} THEN CHOOSE n \in later : \A k \in later : n <= k
                      ELSE CHOOSE n \in blanks : \A k \in blanks : k <= n
             IN  split(SubSeq(text, 1, m - 1)) \o split(SubSeq(text, m + 1, Len(text)))

\* faulty variant: the comparison strict
filter_by_recency_mut_strict(rs, cfg) ==
    SelectSeq(rs, LAMBDA review : cfg.current_year - review.date.year < cfg.years_limit)

\* _filter_by_recency
filter_by_recency(rs, cfg) ==
    SelectSeq(rs, LAMBDA review : cfg.current_year - review.date.year <= cfg.years_limit)

\* _filter_by_review_length
filter_by_review_length(rs, cfg) ==
    SelectSeq(rs, LAMBDA review : Len(split(review.review)) >= cfg.review_length_threshold)

RECURSIVE reversed(_)
reversed(seq) ==
    IF seq = <<>> THEN <<>> ELSE Append(reversed(Tail(seq)), Head(seq))

\* x put into a list sorted by ascending helpfulVotes, behind its equals
RECURSIVE insert_sorted(_, _)
insert_sorted(x, sorted) ==
    IF sorted = <<>> THEN << x >>
    ELSE IF Head(sorted).helpfulVotes <= x.helpfulVotes
    THEN << Head(sorted) >> \o insert_sorted(x, Tail(sorted))
    ELSE << x >> \o sorted

\* a stable sort by ascending helpfulVotes
RECURSIVE sorted_ascending(_)
sorted_ascending(seq) ==
    IF seq = <<>> THEN <<>>
    ELSE insert_sorted(seq[Len(seq)], sorted_ascending(SubSeq(seq, 1, Len(seq) - 1)))

\* faulty variant: an ascending sort reversed afterwards, which turns the
\* order of equal keys around
sorted_by_votes_mut_reverse_after(seq) == reversed(sorted_ascending(seq))

\* sorted(reviews, key=lambda x: x.helpfulVotes, reverse=True): the list is
\* reversed, sorted stably in ascending order and reversed again, which keeps
\* equal keys in their original order
sorted_by_votes(seq) == reversed(sorted_ascending(reversed(seq)))

\* seq[:n] as Python slices: a negative n counts from the end
slice_to(seq, n) ==
    IF n >= 0 THEN SubSeq(seq, 1, Min(n, Len(seq)))
    ELSE SubSeq(seq, 1, Max(Len(seq) + n, 0))

\* faulty variant: the slice left out
filter_top_reviews_mut_no_cap(rs, cfg) == sorted_by_votes(rs)

\* faulty variant: the slice taken before the sort
filter_top_reviews_mut_slice_first(rs, cfg) ==
    sorted_by_votes(slice_to(rs, Min(cfg.top_n, Len(rs))))

\* _filter_top_reviews
filter_top_reviews(rs, cfg) ==
    LET num_reviews == Len(rs)
        top_n == Min(cfg.top_n, num_reviews)
    IN  slice_to(sorted_by_votes(rs), top_n)

\* faulty variant: the recency filter left out
filter_reviews_mut_no_recency(rs, cfg) ==
    filter_top_reviews(filter_by_review_length(rs, cfg), cfg)

\* filter_reviews
filter_reviews(rs, cfg) ==
    LET recent_reviews == filter_by_recency(rs, cfg)
        filtered_reviews == filter_by_review_length(recent_reviews, cfg)
    IN  filter_top_reviews(filtered_reviews, cfg)

\* faulty variant: the caller's list sorted in place (reviews.sort(...))
reviews_after_call_mut_sorted_in_place(rs, cfg) == sorted_by_votes(rs)

\* The caller's list after filter_reviews returned: list(filter(...)) and
\* sorted(...) build new lists, and nothing assigns to or through `reviews`
reviews_after_call(rs, cfg) == rs

\* A caller calls self.filter.filter_reviews(reviews)
FilterReviews ==
    /\ pc = "ready"
    /\ selected' = filter_reviews(reviews, config)
    /\ reviews' = reviews_after_call(reviews, config)
    /\ pc' = "returned"
    /\ UNCHANGED << storeVars, pipeVars, config, discoverVars, laterVars >>

\* A ProfessorFilter has been constructed and a review list is at hand
InitSelect ==
    /\ reviews \in SeqsUpTo(ProfessorReviews, MaxReviews)
    /\ config \in [ review_length_threshold : 1..MaxThreshold,
                    years_limit : YearsLimits,
                    top_n : 0..MaxTopN,
                    current_year : CurrentYears ]
    /\ selected = <<>>
    /\ pc = "ready"
    /\ existing_ids = {}
    /\ last_call = NoCall
    /\ all_batch_data = <<>>
    /\ batch_size = 1
    /\ i = 0
    /\ attempts = <<>>
    /\ run_raised = FALSE
    /\ DiscoverIdle
    /\ LaterIdle

NextSelect == FilterReviews

SpecSelect == InitSelect /\ [][NextSelect]_vars

\* ------------------------------------------------------------------------
\* Properties of review selection (specification SpecSelect)
\* ------------------------------------------------------------------------

\* number of words of a text: the positions where a word starts
WordCount(text) ==
    Cardinality({ n \in 1..Len(text) :
                    text[n] # " " /\ (n = 1 \/ text[n - 1] = " ") })

PassesRecency(review) == config.current_year - review.date.year <= config.years_limit
PassesLength(review) == WordCount(review.review) >= config.review_length_threshold

\* the input restricted to the entries passing both predicates
Eligible == SelectSeq(reviews, LAMBDA r : PassesRecency(r) /\ PassesLength(r))

\* a is b with some entries left out, order kept
RECURSIVE IsSubsequence(_, _)
IsSubsequence(a, b) ==
    IF a = <<>> THEN TRUE
    ELSE IF b = <<>> THEN FALSE
    ELSE IF Head(a) = Head(b) THEN IsSubsequence(Tail(a), Tail(b))
    ELSE IsSubsequence(a, Tail(b))

Occurrences(seq, x) == Cardinality({ n \in 1..Len(seq) : seq[n] = x })

WithVotes(seq, v) == SelectSeq(seq, LAMBDA r : r.helpfulVotes = v)

C8_Original_OutputIsSubsequence ==
    pc = "returned" => IsSubsequence(selected, Eligible)

\* C8 as amended: the output is a sub-multiset of the input restricted to the
\* entries passing both predicates (every output entry is such an entry, no
\* more often than the input holds it), and it is ordered by helpful-vote
\* count, descending, not by input position.
C8_OutputIsRankedSelection ==
    pc = "returned" =>
        /\ \A n \in 1..Len(selected) :
              Occurrences(selected, selected[n]) <= Occurrences(Eligible, selected[n])
        /\ \A a, b \in 1..Len(selected) :
              a < b => selected[a].helpfulVotes >= selected[b].helpfulVotes

C8_Witness ==
    /\ pc = "returned"
    /\ Len(selected) >= 2
    /\ ~IsSubsequence(selected, Eligible)
    /\ Len(reviews) > Len(Eligible)

\* C9: ranking is stable: output entries with the same helpful-vote count
\* stand in the order they have in the input.
C9_RankingStable ==
    pc = "returned" =>
        \A v \in HelpfulVotes : IsSubsequence(WithVotes(selected, v), WithVotes(reviews, v))

C9_Witness ==
    /\ pc = "returned"
    /\ Len(selected) = 2
    /\ selected[1].helpfulVotes = selected[2].helpfulVotes
    /\ selected[1] # selected[2]
    /\ Len(Eligible) = 3
    /\ Eligible[1].helpfulVotes < selected[1].helpfulVotes

\* C10: when every entry of the input fails the length predicate (the empty
\* list included), filter_reviews returns the empty list.
C10_AllShortGivesEmpty ==
    ( /\ pc = "returned"
      /\ \A n \in 1..Len(reviews) : ~PassesLength(reviews[n]) )
    => selected = <<>>

C10_Witness ==
    /\ pc = "returned"
    /\ Len(reviews) >= 2
    /\ \A n \in 1..Len(reviews) : ~PassesLength(reviews[n])
    /\ \E n \in 1..Len(reviews) : PassesRecency(reviews[n])
    /\ config.top_n > 0
    /\ selected = <<>>

\* ------------------------------------------------------------------------
\* search_school_for_professor_links (src/src/search_school.py)
\* ------------------------------------------------------------------------
MaxPages == 3         \* most card groups a directory has

StoreIdle == existing_ids = {} /\ last_call = NoCall
PipeIdle ==
    /\ all_batch_data = <<>>
    /\ batch_size = 1
    /\ i = 0
    /\ attempts = <<>>
    /\ run_raised = FALSE
SelectIdle ==
    /\ reviews = <<>>
    /\ config = [ review_length_threshold |-> 1, years_limit |-> 0,
                  top_n |-> 0, current_year |-> 0 ]
    /\ selected = <<>>

\* An href attribute: absent, a path relative to the site, or a full URL
NoHref == [ form |-> "none", id |-> 0 ]
Rel(n) == [ form |-> "rel", id |-> n ]
Abs(n) == [ form |-> "abs", id |-> n ]

\* The text of a review-count badge, "<count> ratings"
Ratings(count) == count \o << " ", "r", "a", "t", "i", "n", "g", "s" >>

Badge(text) == [ present |-> TRUE, text |-> text ]
NoBadge == [ present |-> FALSE, text |-> <<>> ]
Card(href, badge) == [ href |-> href, badge |-> badge ]

\* Card groups of a directory: each Show More loads one more.
\* GroupA shows the counts 5, 0 and 12
GroupA ==
    << Card(Rel(1), Badge(Ratings(<< "5" >>))),
       Card(Rel(2), Badge(Ratings(<< "0" >>))),
       Card(Rel(3), Badge(Ratings(<< "1", "2" >>))) >>
\* GroupB repeats professor 1 under its full URL and professor 2 with reviews
GroupB ==
    << Card(Rel(4), Badge(Ratings(<< "1" >>))),
       Card(Abs(1), Badge(Ratings(<< "5" >>))),
       Card(Rel(2), Badge(Ratings(<< "2" >>))) >>
\* GroupC has no card to accept: no href, no badge, a badge without a number
GroupC ==
    << Card(NoHref, Badge(Ratings(<< "3" >>))),
       Card(Rel(5), NoBadge),
       Card(Rel(6), Badge(<< "n", "o", "n", "e" >>)) >>
GroupD ==
    << Card(Rel(5), Badge(Ratings(<< "7" >>))),
       Card(Abs(6), Badge(Ratings(<< "1", "0" >>))) >>
CardGroups == { GroupA, GroupB, GroupC, GroupD }

Targets == { "school_url", "directory_url", "school_name", "neither" }
MaxLinksChoices == { 0, 3, 5 }

DigitValue ==
    ("0" :> 0) @@ ("1" :> 1) @@ ("2" :> 2) @@ ("3" :> 3) @@ ("4" :> 4) @@
    ("5" :> 5) @@ ("6" :> 6) @@ ("7" :> 7) @@ ("8" :> 8) @@ ("9" :> 9)
DigitChars == DOMAIN DigitValue

\* urllib.parse.urljoin(base_url, url): a relative path is put behind the
\* site's base URL, a full URL of the site is kept
create_href_url(url) == [ form |-> "abs", id |-> url.id ]

RECURSIVE leading_digits(_)
leading_digits(text) ==
    IF text = <<>> \/ Head(text) \notin DigitChars THEN <<>>
    ELSE << Head(text) >> \o leading_digits(Tail(text))

\* re.search(r"\d+", review_count_text): the first run of digits, <<>> for
\* no match
RECURSIVE first_digits(_)
first_digits(text) ==
    IF text = <<>> THEN <<>>
    ELSE IF Head(text) \in DigitChars THEN leading_digits(text)
    ELSE first_digits(Tail(text))

\* int(match.group())
RECURSIVE to_int(_)
to_int(digits) ==
    IF digits = <<>> THEN 0
    ELSE 10 * to_int(SubSeq(digits, 1, Len(digits) - 1)) + DigitValue[digits[Len(digits)]]

\* faulty variant: a count of 0 accepted too
accepts_count_mut_zero(review_count) == review_count >= 0

\* if review_count > 0
accepts_count(review_count) == review_count > 0

\* The body of `for card in cards` (lines 118-133): the link set afterwards
scan_card(card, links) ==
    IF ~card.badge.present THEN links
    ELSE LET digits == first_digits(card.badge.text)
         IN  IF digits = <<>> THEN links
             ELSE IF ~accepts_count(to_int(digits)) THEN links
             ELSE IF card.href.form = "none" THEN links
             ELSE links \cup { create_href_url(card.href) }

RECURSIVE scan_cards_rest(_, _)
scan_cards_rest(cards, links) ==
    IF cards = <<>> THEN links
    ELSE scan_cards_rest(Tail(cards), scan_card(Head(cards), links))

\* faulty variant: no link added once the set holds max_professor_links
RECURSIVE scan_cards_capped(_, _)
scan_cards_capped(cards, links) ==
    IF cards = <<>> \/ Cardinality(links) >= max_professor_links THEN links
    ELSE scan_cards_capped(Tail(cards), scan_card(Head(cards), links))

scan_cards_mut_capped(cards, links) == scan_cards_capped(cards, links)

\* for card in cards: ... (lines 117-133)
scan_cards(cards, links) == scan_cards_rest(cards, links)

\* page.query_selector_all(...): the cards of the groups a page has loaded
RECURSIVE cards_loaded(_)
cards_loaded(loaded) ==
    IF loaded = 0 THEN <<>> ELSE cards_loaded(loaded - 1) \o directory[loaded]

\* a page just opened on the directory shows its first group
first_load == Min(1, Len(directory))

max_retries == 3

\* faulty variants of the bound test
retries_exhausted_mut_early(retries) == retries + 1 >= max_retries
retries_exhausted_mut_late(retries) == retries > max_retries

\* if retries >= max_retries
retries_exhausted(retries) == retries >= max_retries

\* else: logging.error("No school link found in search results.");
\* return professor_links
no_school_link(links) == [ pc |-> "done", result |-> links, error |-> "none" ]

\* Lines 69-95: the school page is opened, from school_url or through the
\* search.  `outcome` is what the site gives: the link ("href"), no href
\* ("none"), or a Playwright call that times out ("timeout").
ResolveSchool(outcome) ==
    /\ pc = "start"
    /\ target # "school_name" => outcome # "none"
    /\ target = "neither" => outcome = "href"
    /\ IF target = "neither"
       THEN pc' = "landing" /\ UNCHANGED << on_directory, result, error >>
       ELSE IF outcome = "timeout"
       THEN pc' = "raised" /\ error' = "TimeoutError" /\ UNCHANGED << on_directory, result >>
       ELSE IF outcome = "none"
       THEN LET r == no_school_link(professor_links)
            IN  pc' = r.pc /\ result' = r.result /\ error' = r.error
                /\ UNCHANGED on_directory
       ELSE /\ pc' = "landing"
            /\ on_directory' = (target = "directory_url")
            /\ UNCHANGED << result, error >>
    /\ UNCHANGED << storeVars, pipeVars, selectVars, laterVars, target, max_professor_links,
                    directory, page_loaded, retry, professor_links, expand >>

\* Lines 97-107: the "View all Professors" link is looked up and followed
\* when it has an href, and the dialog is closed
OpenDirectory(outcome) ==
    /\ pc = "landing"
    /\ outcome = "href" => (~on_directory /\ target # "neither")
    /\ IF outcome = "timeout"
       THEN pc' = "raised" /\ error' = "TimeoutError"
            /\ UNCHANGED << on_directory, page_loaded >>
       ELSE /\ pc' = "scan"
            /\ on_directory' = (on_directory \/ outcome = "href")
            /\ page_loaded' = IF on_directory' THEN first_load ELSE 0
            /\ UNCHANGED error
    /\ UNCHANGED << storeVars, pipeVars, selectVars, laterVars, target, max_professor_links,
                    directory, retry, professor_links, result, expand >>

\* faulty variant: one more pass allowed
loop_continues_mut_one_more(links, max_links) == Cardinality(links) <= max_links + 1

\* while len(professor_links) <= max_professor_links (line 109)
loop_continues(links, max_links) == Cardinality(links) <= max_links

\* while len(professor_links) <= max_professor_links: the cards of the page
\* are read (lines 109-133) and retry_click_show_more is entered
ScanPage ==
    /\ pc = "scan"
    /\ loop_continues(professor_links, max_professor_links)
    /\ professor_links' = scan_cards(cards_loaded(page_loaded), professor_links)
    /\ retry' = [ retries |-> 0, on_caller_page |-> TRUE, loaded |-> page_loaded ]
    /\ expand' = [ attempts |-> 0, timeouts |-> 0, returned |-> "pending",
                   links |-> professor_links' ]
    /\ pc' = "expand"
    /\ UNCHANGED << storeVars, pipeVars, selectVars, laterVars, target, max_professor_links,
                    directory, on_directory, page_loaded, result, error >>

\* the while condition fails: return professor_links
ReturnLinks ==
    /\ pc = "scan"
    /\ ~loop_continues(professor_links, max_professor_links)
    /\ pc' = "done"
    /\ result' = professor_links
    /\ UNCHANGED << storeVars, pipeVars, selectVars, laterVars, target, max_professor_links,
                    directory, on_directory, page_loaded, retry, professor_links,
                    error, expand >>

\* One pass of the loop of retry_click_show_more (lines 21-48).  `outcome`:
\* the click and the awaited response arrive ("ok"), or a Playwright call
\* times out before the click took effect ("timeout_before") or after it
\* ("timeout_after").
ClickShowMore(outcome) ==
    LET visible == on_directory /\ retry.loaded < Len(directory)
        timed_out == outcome # "ok"
        clicked == outcome # "timeout_before"
        retries == retry.retries + 1
    IN  /\ pc = "expand"
        /\ ~visible => outcome = "ok"
        /\ IF ~visible
           THEN /\ pc' = "done"
                /\ result' = professor_links
                /\ expand' = [ expand EXCEPT !.returned = "false" ]
                /\ UNCHANGED << retry, page_loaded >>
           ELSE /\ retry' = [ retry EXCEPT
                                !.loaded = IF clicked THEN @ + 1 ELSE @,
                                !.retries = IF timed_out THEN retries ELSE @ ]
                /\ page_loaded' = IF clicked /\ retry.on_caller_page
                                  THEN page_loaded + 1 ELSE page_loaded
                /\ IF ~timed_out
                   THEN /\ pc' = "scan"
                        /\ expand' = [ expand EXCEPT !.attempts = @ + 1,
                                                     !.returned = "true" ]
                        /\ UNCHANGED result
                   ELSE IF retries_exhausted(retries)
                   THEN /\ pc' = "done"
                        /\ result' = professor_links
                        /\ expand' = [ expand EXCEPT !.attempts = @ + 1,
                                                     !.timeouts = @ + 1,
                                                     !.returned = "false" ]
                   ELSE /\ pc' = "reopen"
                        /\ expand' = [ expand EXCEPT !.attempts = @ + 1,
                                                     !.timeouts = @ + 1 ]
                        /\ UNCHANGED result
        /\ UNCHANGED << storeVars, pipeVars, selectVars, laterVars, target, max_professor_links,
                        directory, on_directory, professor_links, error >>

\* Lines 50-53, inside the except clause: a new page is opened at page.url
\* and becomes the local `page`; a timeout of goto leaves the function
ReopenPage(outcome) ==
    /\ pc = "reopen"
    /\ IF outcome = "ok"
       THEN /\ retry' = [ retry EXCEPT !.on_caller_page = FALSE,
                                       !.loaded = first_load ]
            /\ pc' = "expand"
            /\ UNCHANGED error
       ELSE /\ pc' = "raised"
            /\ error' = "TimeoutError"
            /\ UNCHANGED retry
    /\ UNCHANGED << storeVars, pipeVars, selectVars, laterVars, target, max_professor_links,
                    directory, on_directory, page_loaded, professor_links,
                    result, expand >>

\* search_school_for_professor_links has been called
InitDiscover ==
    /\ target \in Targets
    /\ max_professor_links \in MaxLinksChoices
    /\ directory \in SeqsUpTo(CardGroups, MaxPages)
    /\ on_directory = FALSE
    /\ page_loaded = 0
    /\ retry = NoRetry
    /\ professor_links = {}
    /\ result = {}
    /\ error = "none"
    /\ expand = NoExpand
    /\ pc = "start"
    /\ StoreIdle
    /\ PipeIdle
    /\ SelectIdle
    /\ LaterIdle

NextDiscover ==
    \/ \E outcome \in { "href", "none", "timeout" } : ResolveSchool(outcome)
    \/ \E outcome \in { "href", "none", "timeout" } : OpenDirectory(outcome)
    \/ ScanPage
    \/ ReturnLinks
    \/ \E outcome \in { "ok", "timeout_before", "timeout_after" } : ClickShowMore(outcome)
    \/ \E outcome \in { "ok", "timeout" } : ReopenPage(outcome)

SpecDiscover == InitDiscover /\ [][NextDiscover]_vars

\* ---- properties of link discovery --------------------------------------

\* The count a card's badge shows, -1 when there is no badge or no number
ShownCount(card) ==
    IF card.badge.present /\ \E k \in DOMAIN card.badge.text : card.badge.text[k] \in DigitChars
    THEN to_int(first_digits(card.badge.text))
    ELSE -1

\* C11: every link collected or returned belongs to a card of the directory
\* whose badge shows a count greater than 0, and a directory made of the one
\* page with the counts 5, 0 and 12 gives exactly the links of 5 and 12.
C11_LinksHavePositiveCount ==
    /\ \A link \in professor_links \cup result :
           \E g \in DOMAIN directory : \E k \in DOMAIN directory[g] :
               LET card == directory[g][k]
               IN  /\ card.href.form # "none"
                   /\ card.href.id = link.id
                   /\ ShownCount(card) > 0
    /\ (pc = "done" /\ on_directory /\ directory = << GroupA >>)
           => result = { Abs(1), Abs(3) }

C11_Witness ==
    /\ pc = "done"
    /\ on_directory
    /\ directory = << GroupA >>
    /\ result = { Abs(1), Abs(3) }

\* Every page of the directory was read: the last expand step found no
\* control on the caller's page, which showed all groups
AllPagesScanned ==
    /\ pc = "done"
    /\ on_directory
    /\ page_loaded = Len(directory)
    /\ expand.returned = "false"
    /\ expand.timeouts = 0

\* C12: no step removes a link from the collected set, the returned set is
\* the collected set, and three pages adding two new links each, read with
\* max_professor_links = 5 (reached only by the third page), give all six.
C12_NoCollectedLinkDiscarded ==
    /\ [][professor_links \subseteq professor_links']_vars
    /\ [](pc = "done" => result = professor_links)
    /\ []((AllPagesScanned /\ directory = << GroupA, GroupB, GroupD >>
              /\ max_professor_links = 5)
          => result = { Abs(n) : n \in 1..6 })

C12_Witness ==
    /\ AllPagesScanned
    /\ directory = << GroupA, GroupB, GroupD >>
    /\ max_professor_links = 5
    /\ Cardinality(result) = 6

\* C13: two timeouts do not end an expand step, and when the third attempt
\* succeeds the step reports success, control is back at the loop head and
\* no error is set.
C13_ThirdAttemptSucceeds ==
    /\ []((expand.timeouts = 2 /\ expand.attempts = 2 /\ pc # "raised")
          => (pc \in { "reopen", "expand" } /\ expand.returned = "pending"))
    /\ [][(pc = "expand" /\ expand.timeouts = 2 /\ expand'.timeouts = 2
              /\ expand'.attempts = 3)
          => (expand'.returned = "true" /\ pc' = "scan" /\ error' = "none")]_vars

C13_Witness ==
    /\ pc = "scan"
    /\ expand.timeouts = 2
    /\ expand.attempts = 3
    /\ expand.returned = "true"
    /\ error = "none"

\* C14: an expand step makes at most max_retries attempts, and when the
\* last of them times out discovery is over, without an error, returning
\* the links collected when the step began.
C14_BoundedAttemptsPartialResult ==
    /\ expand.attempts <= max_retries
    /\ expand.timeouts = max_retries
           => /\ pc = "done"
              /\ error = "none"
              /\ expand.returned = "false"
              /\ result = expand.links
              /\ result = professor_links

C14_Witness ==
    /\ expand.timeouts = max_retries
    /\ pc = "done"
    /\ result = { Abs(1), Abs(3) }

\* C15: once the search and landing sequence is over without a directory
\* page, discovery has failed with an error.
C15_UnresolvedDirectoryRaises ==
    (pc \notin { "start", "landing" } /\ ~on_directory) => pc = "raised"

\* ------------------------------------------------------------------------
\* EmbeddingService (src/src/embeddings.py)
\* ------------------------------------------------------------------------
\* Arithmetic is exact.  A rational is << numerator, denominator >> in lowest
\* terms with denominator > 0.  A vector component is a real whose square is
\* rational, kept as its sign and its square, which is closed under the
\* scaling and the L2 normalisation the code applies.
MaxTags == 2          \* most tags in a call
MaxTexts == 2         \* most review texts in a call

RECURSIVE gcd(_, _)
gcd(a, b) == IF b = 0 THEN a ELSE gcd(b, a % b)

Rat(n, d) ==
    LET g == gcd(IF n < 0 THEN -n ELSE n, d)
    IN  << n \div g, d \div g >>
Zero == Rat(0, 1)
One == Rat(1, 1)
rat_add(a, b) == Rat(a[1] * b[2] + b[1] * a[2], a[2] * b[2])
rat_mul(a, b) == Rat(a[1] * b[1], a[2] * b[2])
\* a / b for b > 0
rat_div(a, b) == Rat(a[1] * b[2], a[2] * b[1])
rat_sign(a) == IF a[1] > 0 THEN 1 ELSE IF a[1] < 0 THEN -1 ELSE 0

\* the rational a as a vector component
Real(a) == [ sign |-> rat_sign(a), sq |-> rat_mul(a, a) ]

\* Review and tag texts as the encoder tells them apart
ComposeTexts == { << "g" >>, << "b" >>, << "f" >> }
Weights == { Rat(0, 1), Rat(3, 10), Rat(7, 10), Rat(-1, 1) }

\* SentenceTransformer.encode(text, normalize_embeddings=True): a unit
\* vector for every text; the model is a black box, this table stands for it
encode(text) ==
    IF text # <<>> /\ Head(text) = "g" THEN << Rat(1, 1), Rat(0, 1) >>
    ELSE IF text # <<>> /\ Head(text) = "b" THEN << Rat(-1, 1), Rat(0, 1) >>
    ELSE IF text # <<>> /\ Head(text) = "f" THEN << Rat(3, 5), Rat(4, 5) >>
    ELSE << Rat(0, 1), Rat(1, 1) >>

\* self.model.get_sentence_embedding_dimension()
embedding_dim == Len(encode(<<>>))

\* generate_embeddings(texts): one row per text
generate_embeddings(texts) == [ n \in DOMAIN texts |-> encode(texts[n]) ]

\* np.zeros(embedding_dim)
zeros(dim) == [ n \in 1..dim |-> Zero ]

RECURSIVE column_sum(_, _)
column_sum(rows, n) ==
    IF rows = <<>> THEN Zero
    ELSE rat_add(Head(rows)[n], column_sum(Tail(rows), n))

\* np.mean(rows, axis=0) of a non-empty array
mean_axis0(rows) ==
    [ n \in 1..Len(rows[1]) |-> rat_div(column_sum(rows, n), Rat(Len(rows), 1)) ]

\* a vector of rationals as a vector of components
as_reals(v) == [ n \in DOMAIN v |-> Real(v[n]) ]

RECURSIVE squared_norm(_)
squared_norm(v) ==
    IF v = <<>> THEN Zero ELSE rat_add(Head(v).sq, squared_norm(Tail(v)))

\* sklearn.preprocessing.normalize(v.reshape(1, -1))[0]: v divided by its L2
\* norm; a norm of 0 is replaced by 1, which leaves a zero vector as it is
normalize(v) ==
    LET s == squared_norm(v)
    IN  IF s = Zero THEN v
        ELSE [ n \in DOMAIN v |-> [ sign |-> v[n].sign, sq |-> rat_div(v[n].sq, s) ] ]

\* embedding * weight
times(v, weight) ==
    [ n \in DOMAIN v |->
        [ sign |-> v[n].sign * rat_sign(weight),
          sq |-> rat_mul(v[n].sq, rat_mul(weight, weight)) ] ]

\* faulty variant: the caller's weights kept when there are no tags
weights_used_mut_no_override(ts, w_tags, w_reviews) ==
    [ tags |-> w_tags, reviews |-> w_reviews ]

\* if not tags: weight_reviews = 1.0; weight_tags = 0.0 (lines 38-41)
weights_used(ts, w_tags, w_reviews) ==
    IF ts = <<>> THEN [ tags |-> Zero, reviews |-> One ]
    ELSE [ tags |-> w_tags, reviews |-> w_reviews ]

\* faulty variant: the combined vector returned as it is
finally_normalized_mut_left_out(combined_embedding) == combined_embedding

\* normalize(combined_embedding.reshape(1, -1))[0] (line 63)
finally_normalized(combined_embedding) == normalize(combined_embedding)

\* generate_professor_embedding for a non-empty review_texts
generate_professor_embedding(ts, texts, w_tags, w_reviews) ==
    LET weights == weights_used(ts, w_tags, w_reviews)
        tags_embedding ==
            normalize(as_reals(IF ts = <<>> THEN zeros(embedding_dim)
                               ELSE mean_axis0(generate_embeddings(ts))))
        reviews_embedding ==
            normalize(as_reals(mean_axis0(generate_embeddings(texts))))
        weighted_tags == times(tags_embedding, weights.tags)
        weighted_reviews == times(reviews_embedding, weights.reviews)
        combined_embedding == weighted_tags \o weighted_reviews
    IN  finally_normalized(combined_embedding)

\* A caller calls generate_professor_embedding
GenerateProfessorEmbedding ==
    /\ pc = "compose"
    /\ normalized_embedding' =
           generate_professor_embedding(tags, review_texts, weight_tags, weight_reviews)
    /\ pc' = "composed"
    /\ UNCHANGED << storeVars, pipeVars, selectVars, discoverVars, publishVars, runVars, raceVars,
                    tags, review_texts, weight_tags, weight_reviews >>

\* An EmbeddingService exists and the arguments of a call are at hand
InitCompose ==
    /\ tags \in SeqsUpTo(ComposeTexts, MaxTags)
    /\ review_texts \in SeqsUpTo(ComposeTexts, MaxTexts) \ { <<>> }
    /\ weight_tags \in Weights
    /\ weight_reviews \in Weights
    /\ normalized_embedding = <<>>
    /\ pc = "compose"
    /\ StoreIdle
    /\ PipeIdle
    /\ SelectIdle
    /\ DiscoverIdle
    /\ PublishIdle
    /\ RunIdle
    /\ RaceIdle

NextCompose == GenerateProfessorEmbedding

SpecCompose == InitCompose /\ [][NextCompose]_vars

\* ---- properties of the composition -------------------------------------

\* the averaged review embedding of the call
ReviewMean == mean_axis0(generate_embeddings(review_texts))
TagMean == mean_axis0(generate_embeddings(tags))
IsZeroVector(v) == \A n \in DOMAIN v : v[n] = Zero
Returned == pc = "composed"

\* C18: with no tags, whatever weights the caller gives, the first
\* embedding_dim components of the result are exactly zero and the rest is
\* the normalised review embedding, as for weight_tags = 0, weight_reviews = 1.
C18_NoTagsZeroTagPart ==
    (Returned /\ tags = <<>>)
        => /\ Len(normalized_embedding) = 2 * embedding_dim
           /\ \A n \in 1..embedding_dim :
                  normalized_embedding[n] = [ sign |-> 0, sq |-> Zero ]
           /\ SubSeq(normalized_embedding, embedding_dim + 1, 2 * embedding_dim)
                  = normalize(as_reals(ReviewMean))

C18_Witness ==
    /\ Returned
    /\ tags = <<>>
    /\ weight_tags = Rat(7, 10)
    /\ weight_reviews = Rat(0, 1)
    /\ normalized_embedding[1] = [ sign |-> 0, sq |-> Zero ]
    /\ squared_norm(normalized_embedding) = One

\* C19 as stated: a non-zero averaged review embedding gives a result of L2
\* norm 1, for every tag list and every pair of weights.
C19_Original_UnitNorm ==
    (Returned /\ ~IsZeroVector(ReviewMean))
        => squared_norm(normalized_embedding) = One

\* The weighted parts are both zero: tags are given, weight_reviews is 0 and
\* weight_tags is 0 or the averaged tag embedding is the zero vector
CombinedIsZero ==
    /\ tags # <<>>
    /\ weight_reviews = Zero
    /\ weight_tags = Zero \/ IsZeroVector(TagMean)

\* C19 (amended): with a non-zero averaged review embedding the result has
\* L2 norm 1 unless tags are given, weight_reviews is 0 and the weighted tag
\* part is zero as well; then the result is the zero vector.
C19_UnitNormUnlessCombinedZero ==
    (Returned /\ ~IsZeroVector(ReviewMean))
        => IF CombinedIsZero
           THEN \A n \in DOMAIN normalized_embedding :
                    normalized_embedding[n] = [ sign |-> 0, sq |-> Zero ]
           ELSE squared_norm(normalized_embedding) = One

C19_Witness ==
    /\ Returned
    /\ tags = << << "g" >>, << "f" >> >>
    /\ ~IsZeroVector(ReviewMean)
    /\ weight_tags = Rat(3, 10)
    /\ weight_reviews = Rat(7, 10)
    /\ squared_norm(normalized_embedding) = One
    /\ normalized_embedding[1].sign = 1

\* ------------------------------------------------------------------------
\* ProfessorEmbeddingsProcessor.generate_embeddings_batch (src/main.py)
\* ------------------------------------------------------------------------
MaxProfessors == 2    \* most professors in a call

\* n words separated by single blanks
Words(n) == [ k \in 1..(2 * n - 1) |-> IF k % 2 = 1 THEN "a" ELSE " " ]

\* ProfessorFilter(): the defaults of __init__
DefaultFilter(year) ==
    [ review_length_threshold |-> 50, years_limit |-> 6, top_n |-> 10,
      current_year |-> year ]

\* Reviews around the defaults: 50 words or 49, six calendar years old or seven
LongReview(votes) == [ date |-> [ year |-> 2020 ], review |-> Words(50), helpfulVotes |-> votes ]
ShortReview == [ date |-> [ year |-> 2020 ], review |-> Words(49), helpfulVotes |-> 1 ]
OldReview == [ date |-> [ year |-> 2019 ], review |-> Words(50), helpfulVotes |-> 1 ]

\* The fields of Professor that generate_embeddings_batch reads and that
\* decide a record; the rating fields are copied into the metadata unread
Professor(name, ts, rs) ==
    [ name |-> name, university |-> << "u", " ", "x" >>, tags |-> ts, reviews |-> rs ]

Professors ==
    { Professor(<< "a", " ", "b" >>, << << "g" >> >>, << ShortReview, OldReview >>),
      Professor(<< "a", " ", "b" >>, << << "g" >> >>, << LongReview(0), LongReview(1) >>),
      Professor(<< "a", "_", "b" >>, <<>>, << LongReview(0) >>),
      Professor(<< "a", "_", "b" >>, <<>>, <<>>) }

\* str.replace(' ', '_')
replace(text) == [ n \in DOMAIN text |-> IF text[n] = " " THEN "_" ELSE text[n] ]

\* f"{name.replace(' ', '_')}_{university.replace(' ', '_')}" (line 134)
professor_id_of(professor) ==
    replace(professor.name) \o << "_" >> \o replace(professor.university)

\* professor_metadata (lines 118-132), without the rating fields
professor_metadata_of(professor, filtered_reviews) ==
    [ name |-> professor.name,
      university |-> professor.university,
      tags |-> professor.tags,
      reviews_summary |->
          [ n \in DOMAIN filtered_reviews |->
              << filtered_reviews[n].review, filtered_reviews[n].helpfulVotes >> ] ]

\* faulty variant: the test for an empty selection left out
no_reviews_found_mut_never(filtered_reviews) == FALSE

\* if not filtered_reviews or len(filtered_reviews) == 0
no_reviews_found(filtered_reviews) == filtered_reviews = <<>>

\* Whether generate_professor_embedding raises: the model fails (embed_ok
\* is FALSE), or the mean of no rows is NaN and normalize rejects it
embedding_raises(texts, embed_ok) == texts = <<>> \/ ~embed_ok

\* One iteration of `for professor in professors` (lines 82-142)
GenerateOne(embed_ok) ==
    LET professor == professors[j + 1]
        filtered_reviews == filter_reviews(professor.reviews, config)
        texts == [ n \in DOMAIN filtered_reviews |-> filtered_reviews[n].review ]
    IN  /\ pc = "generate"
        /\ j < Len(professors)
        /\ j' = j + 1
        /\ IF no_reviews_found(filtered_reviews)
           THEN /\ processed' = Append(processed,
                       [ outcome |-> "skipped", called |-> FALSE, review_texts |-> <<>> ])
                /\ UNCHANGED batch_data
           ELSE IF embedding_raises(texts, embed_ok)
           THEN /\ processed' = Append(processed,
                       [ outcome |-> "error", called |-> TRUE, review_texts |-> texts ])
                /\ UNCHANGED batch_data
           ELSE /\ processed' = Append(processed,
                       [ outcome |-> "embedded", called |-> TRUE, review_texts |-> texts ])
                /\ batch_data' = Append(batch_data,
                       << professor_id_of(professor),
                          << generate_professor_embedding(professor.tags, texts,
                                                          Rat(3, 10), Rat(7, 10)) >>,
                          professor_metadata_of(professor, filtered_reviews) >>)
        /\ UNCHANGED << storeVars, pipeVars, pc, selectVars, discoverVars, composeVars,
                        runVars, raceVars, professors >>

\* return batch_data, assigned to all_batch_data (line 149)
EndGenerate ==
    /\ pc = "generate"
    /\ j >= Len(professors)
    /\ all_batch_data' = batch_data
    /\ pc' = "loop"
    /\ UNCHANGED << storeVars, batch_size, i, attempts, run_raised, selectVars,
                    discoverVars, composeVars, publishVars, runVars, raceVars >>

\* upsert_professors_batch(professors) has been called on a constructed
\* processor; the store may hold the id of a professor already
InitPublish ==
    /\ professors \in SeqsUpTo(Professors, MaxProfessors)
    /\ j = 0
    /\ batch_data = <<>>
    /\ processed = <<>>
    /\ pc = "generate"
    /\ existing_ids \in { {}, { << "a", "_", "b", "_", "u", "_", "x" >> } }
    /\ last_call = NoCall
    /\ all_batch_data = <<>>
    /\ batch_size \in 1..MaxBatchSize
    /\ i = 0
    /\ attempts = <<>>
    /\ run_raised = FALSE
    /\ reviews = <<>>
    /\ config \in { DefaultFilter(year) : year \in CurrentYears }
    /\ selected = <<>>
    /\ DiscoverIdle
    /\ ComposeIdle
    /\ RunIdle
    /\ RaceIdle

NextPublish ==
    \/ \E embed_ok \in BOOLEAN : GenerateOne(embed_ok)
    \/ EndGenerate
    \/ \E store_ok \in BOOLEAN : UpsertChunk(store_ok)
    \/ FinishUpserts

SpecPublish == InitPublish /\ [][NextPublish]_vars

\* ---- properties of generate_embeddings_batch ---------------------------

\* No review of the professor passes the recency and the length test
NothingSelected(professor) ==
    \A n \in DOMAIN professor.reviews :
        ~(PassesRecency(professor.reviews[n]) /\ PassesLength(professor.reviews[n]))

EmbeddedCount == Cardinality({ k \in DOMAIN processed : processed[k].outcome = "embedded" })

\* C16: generate_professor_embedding is never called with an empty
\* review_texts; a professor with no selected review is skipped, which is
\* not an error, and gives no record: the records are those of the embedded
\* professors, and every record passed to the store has selected reviews.
C16_EmptySelectionSkipped ==
    /\ \A k \in DOMAIN processed :
           /\ processed[k].called => processed[k].review_texts # <<>>
           /\ NothingSelected(professors[k])
                  => (processed[k].outcome = "skipped" /\ ~processed[k].called)
    /\ Len(batch_data) = EmbeddedCount
    /\ \A n \in DOMAIN batch_data : batch_data[n][3].reviews_summary # <<>>
    /\ \A a \in DOMAIN attempts : \A n \in DOMAIN attempts[a].metadatas :
           attempts[a].metadatas[n].reviews_summary # <<>>
    /\ ~run_raised

C16_Witness ==
    /\ pc = "done"
    /\ Len(professors) = 2
    /\ NothingSelected(professors[1])
    /\ professors[1].reviews # <<>>
    /\ processed[1].outcome = "skipped"
    /\ processed[2].outcome = "embedded"
    /\ Len(attempts) = 1
    /\ Len(attempts[1].ids) = 1

\* ------------------------------------------------------------------------
\* ProfessorEmbeddingsProcessor: construction and run (src/main.py)
\* ------------------------------------------------------------------------

\* What the store lists when the client is constructed
Listings == { {}, Keys }

\* faulty variant: the result of the connection test ignored
connection_test_stops_mut_ignored(ok) == FALSE

\* if not self.test_pinecone_connection(): sys.exit(1)
connection_test_stops(ok) == ~ok

\* scrape_professor(session, link) binds two arguments to the one parameter
\* of scrape_professor(url): a TypeError as soon as there is a link
scrape_call_raises(links) == links # {}

\* PineconeClient(api_key, index_name) inside __init__ (main.py 30-32): the
\* existing ids are listed; a listing that fails is logged and re-raised
\* after the pages it delivered were added
Construct(listed, listing_ok) ==
    /\ pc = "construct"
    /\ existing_ids' = listed
    /\ refresh' = [ calls |-> refresh.calls + 1, complete |-> listing_ok ]
    /\ IF listing_ok
       THEN pc' = "test" /\ UNCHANGED error
       ELSE pc' = "raised" /\ error' = "StoreError"
    /\ UNCHANGED << last_call, pipeVars, selectVars, target, max_professor_links,
                    directory, on_directory, page_loaded, retry, professor_links,
                    result, expand, composeVars, publishVars, stages, connected,
                    fetched, raceVars >>

\* test_pinecone_connection (main.py 34-49): describe_index_stats answers
\* or raises, which test_connection turns into False
TestConnection(ok) ==
    /\ pc = "test"
    /\ connected' = IF ok THEN "yes" ELSE "no"
    /\ pc' = IF connection_test_stops(ok) THEN "exited" ELSE "constructed"
    /\ UNCHANGED << storeVars, pipeVars, selectVars, discoverVars, composeVars,
                    publishVars, stages, fetched, refresh, raceVars >>

\* run() calls scrape_school_professors (lines 169-175)
RunDiscovery ==
    /\ pc = "constructed"
    /\ pc' = "start"
    /\ stages' = stages \cup { "discovery" }
    /\ UNCHANGED << storeVars, pipeVars, selectVars, discoverVars, composeVars,
                    publishVars, connected, fetched, refresh, raceVars >>

\* scrape_professor_links(professor_links) (lines 64-76, called at 178).
\* `extractable` are the links whose page a fetch would turn into a Professor.
ScrapeProfessorLinks(extractable) ==
    /\ pc = "done"
    /\ stages = { "discovery" }
    /\ stages' = stages \cup { "extraction" }
    /\ fetched' = extractable
    /\ IF scrape_call_raises(result)
       THEN pc' = "raised" /\ error' = "TypeError" /\ UNCHANGED professors
       ELSE pc' = "extracted" /\ professors' = <<>> /\ UNCHANGED error
    /\ UNCHANGED << storeVars, pipeVars, selectVars, target, max_professor_links,
                    directory, on_directory, page_loaded, retry, professor_links,
                    result, expand, composeVars, j, batch_data, processed, connected, refresh, raceVars >>

\* upsert_professors_batch(all_professors) (line 181) enters
\* generate_embeddings_batch
RunUpserts ==
    /\ pc = "extracted"
    /\ pc' = "generate"
    /\ stages' = stages \cup { "embedding" }
    /\ UNCHANGED << storeVars, pipeVars, selectVars, discoverVars, composeVars,
                    publishVars, connected, fetched, refresh, raceVars >>

\* The outcomes of the fetches that the environment may decide on
FetchOutcomes(links) ==
    { links, {} } \cup { links \ { link } : link \in { l \in links : \A k \in links : l.id <= k.id } }

\* main() is about to construct the processor
InitRun ==
    /\ pc = "construct"
    /\ existing_ids = {}
    /\ last_call = NoCall
    /\ PipeIdle
    /\ SelectIdle
    /\ target \in Targets
    /\ max_professor_links \in MaxLinksChoices
    /\ directory \in SeqsUpTo(CardGroups, MaxPages)
    /\ on_directory = FALSE
    /\ page_loaded = 0
    /\ retry = NoRetry
    /\ professor_links = {}
    /\ result = {}
    /\ error = "none"
    /\ expand = NoExpand
    /\ LaterIdle

\* The loop bodies of generate_embeddings_batch and upsert_professors_batch
\* are no steps of a run: all_professors is empty whenever run() gets there
NextRun ==
    \/ \E listed \in Listings : \E listing_ok \in BOOLEAN : Construct(listed, listing_ok)
    \/ \E ok \in BOOLEAN : TestConnection(ok)
    \/ RunDiscovery
    \/ \E outcome \in { "href", "none", "timeout" } : ResolveSchool(outcome)
    \/ \E outcome \in { "href", "none", "timeout" } : OpenDirectory(outcome)
    \/ ScanPage
    \/ ReturnLinks
    \/ \E outcome \in { "ok", "timeout_before", "timeout_after" } : ClickShowMore(outcome)
    \/ \E outcome \in { "ok", "timeout" } : ReopenPage(outcome)
    \/ \E extractable \in FetchOutcomes(result) : ScrapeProfessorLinks(extractable)
    \/ RunUpserts
    \/ EndGenerate
    \/ FinishUpserts

SpecRun == InitRun /\ [][NextRun]_vars

\* ---- properties of a run ------------------------------------------------

\* C17: once extraction has been entered, no error has left it and the
\* professors passed on are as many as the links whose fetch succeeds.
C17_ExtractionFanIn ==
    "extraction" \in stages
        => /\ pc # "raised"
           /\ error = "none"
           /\ Len(professors) = Cardinality(fetched)

\* C20: after a failed connection test the run is over: no stage has begun,
\* nothing was discovered, extracted, embedded or sent to the store, and no
\* step follows.
C20_FailedTestStopsRun ==
    /\ [](connected = "no"
            => /\ pc = "exited"
               /\ stages = {}
               /\ professor_links = {} /\ result = {} /\ expand = NoExpand
               /\ professors = <<>> /\ processed = <<>> /\ batch_data = <<>>
               /\ attempts = <<>> /\ last_call = NoCall)
    /\ [][pc = "exited" => pc' = "exited"]_vars

C20_Witness ==
    /\ pc = "exited"
    /\ connected = "no"
    /\ existing_ids = Keys
    /\ stages = {}

\* search_school_for_professor_links keeps running: a step that can be
\* taken is taken
SpecDiscoverFair == SpecDiscover /\ WF_vars(NextDiscover)

\* ---- properties of the scan/expand loop --------------------------------

OverMax == Cardinality(professor_links) > max_professor_links
ScanStep == pc = "scan" /\ pc' = "expand"
ActivationStep == pc = "expand" /\ expand'.attempts = expand.attempts + 1

\* C25 as stated: once the count is above max_professor_links, neither the
\* Show More control is activated nor the page scanned again.
C25_Original_StopsAtOnce ==
    [][OverMax => (~ActivationStep /\ ~ScanStep)]_vars

\* C25 (amended): once the count is above max_professor_links no page is
\* scanned and no link is added any more; the expand step that follows the
\* scan which exceeded the maximum is still carried out before the loop
\* condition is evaluated.
C25_NoScanOverMax ==
    [][OverMax => (~ScanStep /\ professor_links' = professor_links)]_vars

C25_Witness ==
    /\ pc = "scan"
    /\ Cardinality(expand.links) > max_professor_links
    /\ expand.attempts >= 1
    /\ expand.returned = "true"

\* C26: a scan that follows an expand step which succeeded after a timeout
\* reads the cards of the page on which the control was activated.
C26_ResumesOnFreshPage ==
    [][(ScanStep /\ expand.returned = "true" /\ expand.timeouts >= 1)
          => professor_links' = scan_cards(cards_loaded(retry.loaded), professor_links)]_vars

\* C27: no step of an expand step ends in an error.
C27_NoTimeoutLeavesExpand ==
    [][(pc \in { "expand", "reopen" }) => (pc' # "raised")]_vars

\* C28: once the directory is loaded, the loop comes to an end; an error
\* that leaves the function is counted as an end here as well.
C28_DiscoveryTerminates == (pc = "scan") ~> (pc \in { "done", "raised" })

\* ---- the chunks of the publish loop (specification SpecPipeline) --------

\* the records passed to upsert_batch by the k-th call
AttemptRecords(k) ==
    [ n \in 1..Len(attempts[k].ids) |->
        << attempts[k].ids[n], attempts[k].embeddings[n], attempts[k].metadatas[n] >> ]

\* the records of the first k calls, one after another
RECURSIVE RecordsPassed(_)
RecordsPassed(k) ==
    IF k = 0 THEN <<>> ELSE RecordsPassed(k - 1) \o AttemptRecords(k)

\* C29: the calls of upsert_batch partition the candidate list: the records
\* passed so far, call after call, are the candidates up to position i, at
\* the end all of them, each once and in order; no call gets more than
\* batch_size records and every call but the last gets exactly batch_size.
C29_ChunksPartitionCandidates ==
    /\ RecordsPassed(Len(attempts))
           = SubSeq(all_batch_data, 1, Min(i, Len(all_batch_data)))
    /\ pc = "done" => RecordsPassed(Len(attempts)) = all_batch_data
    /\ \A k \in 1..Len(attempts) :
           /\ Len(attempts[k].ids) >= 1
           /\ Len(attempts[k].ids) <= batch_size
           /\ k < Len(attempts) => Len(attempts[k].ids) = batch_size

C29_Witness ==
    /\ pc = "done"
    /\ Len(all_batch_data) = 3
    /\ batch_size = 2
    /\ Len(attempts) = 2
    /\ Len(attempts[1].ids) = 2
    /\ Len(attempts[2].ids) = 1
    /\ all_batch_data[1] = all_batch_data[3]


\* ------------------------------------------------------------------------
\* Review selection against its reference (specification SpecSelect)
\* ------------------------------------------------------------------------

\* the eligible reviews that a selection leaves out, counted with repetition
LeftOut(chosen, r) == Occurrences(Eligible, r) > Occurrences(chosen, r)

\* chosen is a reference selection: as many eligible reviews as top_n allows,
\* in descending order of helpful votes, none of them outvoted by one left out
IsReferenceSelection(chosen) ==
    /\ Len(chosen) = Min(config.top_n, Len(Eligible))
    /\ \A n \in DOMAIN chosen : Occurrences(chosen, chosen[n]) <= Occurrences(Eligible, chosen[n])
    /\ \A n \in DOMAIN chosen : \A m \in DOMAIN chosen :
           n < m => chosen[n].helpfulVotes >= chosen[m].helpfulVotes
    /\ \A n \in DOMAIN Eligible : \A m \in DOMAIN chosen :
           LeftOut(chosen, Eligible[n]) => Eligible[n].helpfulVotes <= chosen[m].helpfulVotes

\* C22: filter_reviews returns the reference selection: min(top_n, survivors)
\* of the reviews that pass the length and recency tests, in descending order
\* of helpful votes, and no eligible review that was left out has more
\* helpful votes than one that was taken.
C22_SelectionMatchesReference ==
    pc = "returned" => IsReferenceSelection(selected)

\* three eligible reviews, two taken, and the one left out came first in the
\* input with fewer votes than both of the taken ones
C22_Witness ==
    /\ pc = "returned"
    /\ Len(Eligible) = 3
    /\ config.top_n = 2
    /\ Eligible[1].helpfulVotes = 0
    /\ Len(selected) = 2
    /\ selected[2].helpfulVotes = 1


Months == { 1, 12 }
RecencyYears == { 2019, 2020, 2021 }

\* reviews told apart by their date only; datetime is cut down to year and
\* month
DatedReviews ==
    [ date : [ year : RecencyYears, month : Months ],
      review : { << "a" >> }, helpfulVotes : { 0 } ]

\* filter_reviews calls self._filter_by_recency(reviews)
FilterByRecency ==
    /\ pc = "recency"
    /\ selected' = filter_by_recency(reviews, config)
    /\ pc' = "filtered"
    /\ UNCHANGED << storeVars, pipeVars, reviews, config, discoverVars, laterVars >>

\* A ProfessorFilter was constructed in the year current_year
InitRecency ==
    /\ reviews \in SeqsUpTo(DatedReviews, MaxReviews)
    /\ config \in [ review_length_threshold : { 1 },
                    years_limit : YearsLimits,
                    top_n : { MaxTopN },
                    current_year : { 2026, 2027 } ]
    /\ selected = <<>>
    /\ pc = "recency"
    /\ StoreIdle
    /\ PipeIdle
    /\ DiscoverIdle
    /\ LaterIdle

NextRecency == FilterByRecency

SpecRecency == InitRecency /\ [][NextRecency]_vars

\* completed years from a date to a later one
WholeYears(from, to) ==
    IF to.month >= from.month THEN to.year - from.year ELSE to.year - from.year - 1

\* the dates of the year in which the filter reads the clock
CurrentDates == [ year : { config.current_year }, month : Months ]

\* C23 as stated: whatever the current date, exactly the reviews whose age
\* in completed years is at most years_limit are kept.
C23_Original_WholeYears ==
    pc = "filtered" =>
        \A today \in CurrentDates :
            selected = SelectSeq(reviews, LAMBDA review :
                           WholeYears(review.date, today) <= config.years_limit)

\* position n of the input is kept by the calendar-year rule
KeptByCalendarYear(n) ==
    config.current_year - reviews[n].date.year <= config.years_limit

\* C23 amended: exactly the reviews whose calendar year lies at most
\* years_limit before the calendar year of the filter's construction are
\* kept, in input order; months and days play no part.
C23_CalendarYearDifference ==
    pc = "filtered" =>
        /\ IsSubsequence(selected, reviews)
        /\ Len(selected) = Cardinality({ n \in DOMAIN reviews : KeptByCalendarYear(n) })
        /\ \A n \in DOMAIN selected :
               config.current_year - selected[n].date.year <= config.years_limit

\* a December review six completed years old in January, dropped, next to a
\* review that is kept
C23_Witness ==
    /\ pc = "filtered"
    /\ config.current_year = 2026
    /\ config.years_limit = 6
    /\ \E n \in DOMAIN reviews :
          /\ reviews[n].date = [ year |-> 2019, month |-> 12 ]
          /\ WholeYears(reviews[n].date, [ year |-> 2026, month |-> 1 ]) = 6
    /\ Len(selected) = 1
    /\ Len(reviews) = 2


\* ------------------------------------------------------------------------
\* Construction of a PineconeClient and the calls made on it afterwards
\* (specification SpecClient)
\* ------------------------------------------------------------------------

\* faulty variant: the listing error logged and swallowed
refresh_raises_mut_swallowed(listing_ok) == FALSE

\* refresh_existing_ids: `except Exception ... raise` (lines 43-45)
refresh_raises(listing_ok) == ~listing_ok

\* PineconeClient.__init__ (lines 11-17): the cache starts empty and
\* refresh_existing_ids adds the ids of every page the listing delivers;
\* `delivered` are the pages that arrived, all of them when the listing
\* succeeds.  An error leaves __init__, so that no client object exists.
NewClient(in_store, delivered, listing_ok) ==
    /\ pc = "new"
    /\ listing_ok => delivered = in_store
    /\ existing_ids' = delivered
    /\ refresh' = [ calls |-> refresh.calls + 1, complete |-> delivered = in_store ]
    /\ IF refresh_raises(listing_ok)
       THEN pc' = "raised" /\ error' = "StoreError"
       ELSE pc' = "client" /\ UNCHANGED error
    /\ UNCHANGED << last_call, pipeVars, selectVars, target, max_professor_links,
                    directory, on_directory, page_loaded, retry, professor_links,
                    result, expand, composeVars, publishVars, stages, connected,
                    fetched, raceVars >>

\* PineconeClient(api_key, index_name) is about to be called
InitClient ==
    /\ pc = "new"
    /\ StoreIdle
    /\ PipeIdle
    /\ SelectIdle
    /\ DiscoverIdle
    /\ LaterIdle

NextClient ==
    \/ \E in_store \in SUBSET Keys : \E delivered \in SUBSET in_store :
          \E listing_ok \in BOOLEAN : NewClient(in_store, delivered, listing_ok)
    \/ \E batch \in SeqsUpTo(Triples, MaxBatchLen), store_ok \in BOOLEAN :
          UpsertBatch(Column(batch, 1), Column(batch, 2), Column(batch, 3), store_ok)
    \/ \E t \in Triples, store_ok \in BOOLEAN :
          UpsertOne(t[1], t[2], t[3], store_ok)

SpecClient == InitClient /\ [][NextClient]_vars

\* C21: refresh_existing_ids runs once, in the constructor and before any
\* upsert; a failed listing leaves the constructor as an error, and every
\* upsert call is made on a client whose listing was read to the end.
C21_RefreshedOnceBeforeUpserts ==
    /\ refresh.calls <= 1
    /\ (pc = "new") = (refresh.calls = 0)
    /\ pc = "raised" => error = "StoreError" /\ last_call = NoCall
    /\ last_call # NoCall => refresh.calls = 1 /\ refresh.complete
    /\ pc = "client" => refresh.complete

\* an upsert that reached the store through a client whose listing had
\* returned ids
C21_Witness ==
    /\ pc = "client"
    /\ refresh = [ calls |-> 1, complete |-> TRUE ]
    /\ last_call.sent # <<>>
    /\ last_call.before # {}


\* ------------------------------------------------------------------------
\* Two callers on one PineconeClient at the same time (specification
\* SpecRace).  Neither method takes a lock, so another thread may run between
\* the membership test, the index.upsert request and the cache update.
\* ------------------------------------------------------------------------
Threads == { 1, 2 }

\* one payload is enough: only the ids take part in the test and the update
RacePayload == CHOOSE p \in Payloads : TRUE

\* a call in progress: the method, its vectors list and the thread's position;
\* `after` are the threads whose call was over when this one read the cache
\* (observation)
Entered(op, ids) ==
    [ op |-> op,
      vectors |-> vectors_of(ids, [ n \in DOMAIN ids |-> RacePayload[1] ],
                             [ n \in DOMAIN ids |-> RacePayload[2] ]),
      to_upsert |-> <<>>,
      after |-> {},
      at |-> "entered" ]

RaceCalls ==
    { Entered("upsert_batch", ids) : ids \in SeqsUpTo(Keys, MaxBatchLen) }
    \cup { Entered("upsert_professor_embeddings", << k >>) : k \in Keys }

\* upsert_batch line 90 and `if not vectors_to_upsert: return` (91-93);
\* upsert_professor_embeddings `if professor_id in self.existing_ids: return`
\* (60-62): the thread reads the cache
CheckCache(t) ==
    LET to_upsert == vectors_to_upsert(threads[t].vectors, existing_ids)
    IN  /\ pc = "threads"
        /\ threads[t].at = "entered"
        /\ threads' = [ threads EXCEPT ![t].to_upsert = to_upsert,
                                       ![t].after = { u \in Threads \ { t } :
                                           threads[u].at \in { "returned", "raised" } },
                                       ![t].at = IF to_upsert = <<>> THEN "returned"
                                                 ELSE "checked" ]
        /\ UNCHANGED << storeVars, pipeVars, pc, selectVars, discoverVars, composeVars,
                        publishVars, runVars, submissions >>

\* self.index.upsert(vectors=...) (lines 65 and 95): the request goes out and
\* is answered or raises
SubmitToStore(t, store_ok) ==
    /\ pc = "threads"
    /\ threads[t].at = "checked"
    /\ submissions' = Append(submissions, [ thread |-> t, ok |-> store_ok,
                                            vectors |-> threads[t].to_upsert ])
    /\ threads' = [ threads EXCEPT ![t].at = IF store_ok THEN "stored" ELSE "raised" ]
    /\ UNCHANGED << storeVars, pipeVars, pc, selectVars, discoverVars, composeVars,
                    publishVars, runVars >>

\* self.existing_ids.add / .update (lines 66 and 96)
UpdateCache(t) ==
    /\ pc = "threads"
    /\ threads[t].at = "stored"
    /\ existing_ids' = ids_updated(existing_ids, threads[t].to_upsert)
    /\ threads' = [ threads EXCEPT ![t].at = "returned" ]
    /\ UNCHANGED << last_call, pipeVars, pc, selectVars, discoverVars, composeVars,
                    publishVars, runVars, submissions >>

\* Each thread has entered one of the two methods of the same client
InitRace ==
    /\ pc = "threads"
    /\ existing_ids \in SUBSET Keys
    /\ last_call = NoCall
    /\ threads \in [ Threads -> RaceCalls ]
    /\ submissions = <<>>
    /\ PipeIdle
    /\ SelectIdle
    /\ DiscoverIdle
    /\ ComposeIdle
    /\ PublishIdle
    /\ RunIdle

NextRace ==
    \/ \E t \in Threads : CheckCache(t)
    \/ \E t \in Threads : \E store_ok \in BOOLEAN : SubmitToStore(t, store_ok)
    \/ \E t \in Threads : UpdateCache(t)

SpecRace == InitRace /\ [][NextRace]_vars

\* the index.upsert requests that the store accepted and that carry key k
AcceptedWith(k) ==
    { n \in DOMAIN submissions :
          /\ submissions[n].ok
          /\ \E m \in DOMAIN submissions[n].vectors : submissions[n].vectors[m][1] = k }

\* C30: when two calls run at the same time for a key that is not in the
\* cache, the store accepts that key from one of them only.
C30_KeySubmittedOnce ==
    \A k \in Keys : Cardinality(AcceptedWith(k)) <= 1


\* ------------------------------------------------------------------------
\* Where the keys of the cache come from (specification SpecClient)
\* ------------------------------------------------------------------------

\* the keys of the store calls of a finished call that the store accepted
AcceptedKeys(call) ==
    IF call.raised THEN {}
    ELSE UNION { KeysOf(call.sent[n]) : n \in 1..Len(call.sent) }

\* C31: the cache holds only keys that the listing of the constructor
\* returned or that a successful store submission carried: the cache is empty
\* before the listing, and a call adds at most the keys of its own accepted
\* submission, so that the keys of a failed or skipped submission are in the
\* cache afterwards only if they were there before.
C31_CacheHoldsListedOrAccepted ==
    [][ /\ (pc = "new") => (existing_ids = {})
        /\ (pc = "client") =>
              /\ existing_ids' \subseteq existing_ids \cup AcceptedKeys(last_call')
              /\ existing_ids \subseteq existing_ids' ]_vars

\* after a listing that returned a key, a submission of another key failed
\* and that key is not in the cache
C31_Witness ==
    /\ pc = "client"
    /\ refresh.complete
    /\ last_call.before # {}
    /\ last_call.sent # <<>>
    /\ last_call.raised
    /\ \E k \in KeysOf(last_call.sent[1]) : k \notin existing_ids


\* ------------------------------------------------------------------------
\* Keys submitted over one run of the publish loop (specification
\* SpecPipeline)
\* ------------------------------------------------------------------------

\* the records with key k that the store accepted in the n-th call of the
\* run, as positions of that call's vectors argument
AcceptedRecords(n, k) ==
    IF attempts[n].raised \/ attempts[n].sent = <<>> THEN {}
    ELSE { << n, m >> : m \in { q \in DOMAIN attempts[n].sent[1] :
                                    attempts[n].sent[1][q][1] = k } }

SubmittedBy(t) ==
    UNION { KeysOf(submissions[n].vectors) :
                n \in { m \in DOMAIN submissions : submissions[m].thread = t } }

\* the keys of the vectors of a thread that the store accepted
AcceptedFrom(t) ==
    UNION { KeysOf(submissions[n].vectors) :
                n \in { m \in DOMAIN submissions :
                            submissions[m].thread = t /\ submissions[m].ok } }

\* C30 amended: when the second call starts after the first has returned, a
\* key the store accepted from the first is not submitted by the second.
C30_CallsInSequenceSubmitOnce ==
    \A t \in Threads : \A u \in threads[t].after :
        SubmittedBy(t) \cap AcceptedFrom(u) = {}

\* thread 2 read the cache after thread 1 had stored k1, asked for k1 and k2
\* and submitted k2 alone
C30_Witness ==
    /\ threads[2].after = { 1 }
    /\ AcceptedFrom(1) = { "k1" }
    /\ KeysOf(threads[2].vectors) = { "k1", "k2" }
    /\ AcceptedFrom(2) = { "k2" }
    /\ threads[2].at = "returned"

====
